---------------------------- MODULE Spec2Model ----------------------------
(***************************************************************************)
(* transform.py of the geodesy package: geo2grid, grid2geo, xyz2llh,       *)
(* llh2xyz and the two csv drivers geo2gridio and grid2geoio.              *)
(*                                                                         *)
(* Angles are integers in hundredths of an arcsecond (Deg of them to the   *)
(* degree), lengths are integers in metres.  The zone, the central         *)
(* meridian and the longitude difference are computed as the code          *)
(* computes them.  The values of the floating-point Krueger series         *)
(* (easting, northing, recovered latitude, ...) do not fit TLC's integers: *)
(* each is kept as a record naming the formula and the arguments it was    *)
(* evaluated on, so that two results are equal exactly when the code       *)
(* evaluated the same formula on the same arguments.                       *)
(***************************************************************************)
EXTENDS Integers, Sequences, FiniteSets

VARIABLES proj, derived, calls, xyz, io

vars == <<proj, derived, calls, xyz, io>>

---------------------------------------------------------------------------
(* Units and bounds *)

Deg == 3600 * 100

HalfDeg == Deg \div 2

\* number of finished core calls the history keeps
MaxCalls == 2

\* longest input file of a driver run
MaxRows == 3

Abs(v) == IF v < 0 THEN -v ELSE v

\* Python's int() of a float quotient: truncation toward zero
TruncDiv(a, b) == IF a >= 0 THEN a \div b ELSE -((-a) \div b)

\* the mathematical floor of a quotient (b > 0)
FloorDiv(a, b) == a \div b

---------------------------------------------------------------------------
(* Module constants, transform.py lines 58-218.  proj[k] of the source is  *)
(* proj[k+1] here.                                                         *)

\* constants.grs80: semi-major axis, inverse flattening, false easting,
\* false northing, central scale factor, zone width, initial central meridian
grs80 ==
    <<6378137, "298.25722210088", 500000, 10000000, "0.9996", 6, -177>>

\* the values the module-level assignments leave behind
DerivedConstants(p) ==
    [ prec     |-> 28,
      f        |-> "0.003352810681183667896169808698",
      semi_maj |-> p[1],
      semi_min |-> "6356752.314140347",
      ecc1sq   |-> "0.006694380022903477",
      ecc2sq   |-> "0.006739496775481683",
      ecc1     |-> "0.08181919104283222",
      n        |-> "0.0016792203946294215",
      A        |-> "6367449.145771043",
      alpha    |-> << "0.0008377318247288884", "7.608527848155776e-07",
                      "1.1976455208567523e-09", "2.4291707280406584e-12",
                      "5.711818510477831e-15", "1.4799979749298314e-17",
                      "4.107624250395403e-20", "1.2107850864865114e-22" >>,
      beta     |-> << "-0.000837732168162369", "-5.905870210373895e-08",
                      "-1.6734826899791923e-10", "-2.164798152996557e-13",
                      "-3.787931061597643e-16", "-7.236769234970741e-19",
                      "-1.493479876101249e-21", "-3.259522673883771e-24" >> ]

---------------------------------------------------------------------------
(* geo2grid, lines 221-267 *)

\* line 229: zone = int((float(long) - (proj[6] - (1.5 * proj[5]))) / proj[5])
ZoneOf(long) ==
    TruncDiv(long - (proj[7] * Deg - (3 * proj[6] * Deg) \div 2), proj[6] * Deg)

\* line 230: centmeridian = float(zone * proj[5]) + (proj[6] - proj[5])
CentMeridian(zone) == zone * proj[6] * Deg + (proj[7] - proj[6]) * Deg

\* lines 232-266: conformal latitude, Gauss-Schreiber ratios, the alpha
\* series and the MGA coordinates, as functions of lat and long_diff
TMEast(lat, long_diff) ==
    [ fn |-> "east", lat |-> lat, long_diff |-> long_diff,
      A |-> derived.A, k0 |-> proj[5], false_origin |-> proj[3] ]

TMNorth(lat, long_diff) ==
    [ fn |-> "north", lat |-> lat, long_diff |-> long_diff,
      A |-> derived.A, k0 |-> proj[5], false_origin |-> proj[4] ]

\* a plausible slip: the two arguments taken in the other order
Geo2GridArgsSwapped(lat, long) ==
    LET zone == ZoneOf(lat)
        centmeridian == CentMeridian(zone)
        long_diff == lat - centmeridian
    IN  [ raised |-> "", zone |-> zone, centmeridian |-> centmeridian,
          east |-> TMEast(long, long_diff), north |-> TMNorth(long, long_diff) ]

\* the whole function: no test of lat, no raise
Geo2Grid(lat, long) ==
    LET zone == ZoneOf(long)
        centmeridian == CentMeridian(zone)
        long_diff == long - centmeridian
    IN  [ raised |-> "", zone |-> zone, centmeridian |-> centmeridian,
          east |-> TMEast(lat, long_diff), north |-> TMNorth(lat, long_diff) ]

---------------------------------------------------------------------------
(* grid2geo, lines 270-333 *)

\* lines 284-303: sinh/cosh of the series arguments raise OverflowError
\* ('math range error') once the easting lies this far from the false
\* easting; below 20 000 km no northing makes them raise
OverflowOffset == 30000000

Grid2GeoRaises(easting) == Abs(easting - proj[3]) >= OverflowOffset

\* line 330: cm = float((zone * proj[5]) + proj[6] - proj[5])
Grid2GeoCm(zone) == (zone * proj[6]) * Deg + proj[7] * Deg - proj[6] * Deg

Grid2Geo(zone, easting, northing) ==
    IF Grid2GeoRaises(easting)
    THEN [ raised |-> "OverflowError", cm |-> 0, lat |-> [fn |-> "none"],
           long_diff |-> [fn |-> "none"] ]
    ELSE [ raised |-> "", cm |-> Grid2GeoCm(zone),
           \* lines 322-328: three Newton steps, lat = degrees(atan(t4))
           lat |-> [ fn |-> "lat", easting |-> easting, northing |-> northing,
                     A |-> derived.A ],
           \* line 331; the returned longitude is cm + long_diff
           long_diff |-> [ fn |-> "long_diff", easting |-> easting,
                           northing |-> northing, A |-> derived.A ] ]

---------------------------------------------------------------------------
(* llh2xyz, lines 362-379 *)

Llh2Xyz(lat, long, ellht) ==
    LET nu == IF lat = 0
              THEN [fn |-> "proj[0]", v |-> proj[1], lat |-> 0]
              ELSE [fn |-> "nu", v |-> derived.semi_maj, lat |-> lat]
    IN  [ raised |-> "",
          x |-> [fn |-> "x", nu |-> nu, lat |-> lat, long |-> long, h |-> ellht],
          y |-> [fn |-> "y", nu |-> nu, lat |-> lat, long |-> long, h |-> ellht],
          z |-> [fn |-> "z", nu |-> nu, lat |-> lat, long |-> long, h |-> ellht] ]

---------------------------------------------------------------------------
(* xyz2llh, lines 336-359 *)

\* line 350: the tolerance 1e-10 rad, the unit residuals are kept in
Tolerance == 1

\* residuals are kept up to 0.2 rad; line 349 starts itercheck at 1 rad
ItercheckMax == 2 * 1000000000

\* The points xyz2llh is called on, in metres.
XyzPoints ==
    { <<6378137, 0, 0>>, <<-4052052, 4212836, -2545106>>,
      <<90000, 0, 60000>>, <<0, 0, 1>> }

\* lines 351-352 evaluated on each point: abs(itercheck) after the 1st, 2nd,
\* ... pass through the loop body, in units of 1e-10 rad, rounded up
XyzResiduals(pt) ==
    CASE pt = <<6378137, 0, 0>> -> <<0>>
      [] pt = <<-4052052, 4212836, -2545106>> -> <<2330, 14, 1>>
      [] pt = <<90000, 0, 60000>> ->
            << 1587485170, 307715147, 53119462, 8955754, 1503707, 252303,
               42329, 7102, 1192, 200, 34, 6, 1 >>
      [] OTHER -> <<0>>

\* lines 344-349: long, p, latinit; a point on the axis divides by p = 0
Xyz2llhCall ==
    /\ xyz.pc # "loop"
    /\ \E pt \in XyzPoints :
          xyz' = IF pt[1] = 0 /\ pt[2] = 0
                 THEN [ pc |-> "raised", pt |-> pt, itercheck |-> 0,
                        iters |-> 0, raised |-> "ZeroDivisionError" ]
                 ELSE [ pc |-> "loop", pt |-> pt, itercheck |-> ItercheckMax,
                        iters |-> 0, raised |-> "" ]
    /\ UNCHANGED <<proj, derived, calls, io>>

\* a plausible slip: the pass stores its radius nu in the module-level n
Xyz2llhIterateWritesN ==
    /\ xyz.pc = "loop"
    /\ Abs(xyz.itercheck) > Tolerance
    /\ xyz' = [ xyz EXCEPT !.iters = @ + 1,
                           !.itercheck = XyzResiduals(xyz.pt)[xyz.iters + 1] ]
    /\ derived' = [ derived EXCEPT !.n = "nu" ]
    /\ UNCHANGED <<proj, calls, io>>

\* lines 350-353: one pass through the while loop; the only test is the
\* residual, there is no count of the passes
Xyz2llhIterate ==
    /\ xyz.pc = "loop"
    /\ Abs(xyz.itercheck) > Tolerance
    /\ xyz' = [ xyz EXCEPT !.iters = @ + 1,
                           !.itercheck = XyzResiduals(xyz.pt)[xyz.iters + 1] ]
    /\ UNCHANGED <<proj, derived, calls, io>>

\* lines 354-359: the loop ends, ellht and the degrees are returned
Xyz2llhReturn ==
    /\ xyz.pc = "loop"
    /\ ~(Abs(xyz.itercheck) > Tolerance)
    /\ xyz' = [ xyz EXCEPT !.pc = "done" ]
    /\ UNCHANGED <<proj, derived, calls, io>>

---------------------------------------------------------------------------
(* Calls of the three closed-form conversions *)

LatInputs == { -(37 * Deg + HalfDeg), 100 * Deg }

LlhLatInputs == { 0, 100 * Deg }

LongInputs ==
    { -193 * Deg, -187 * Deg, -186 * Deg, -181 * Deg, -180 * Deg,
      147 * Deg + HalfDeg }

ZoneInputs == { 0, 55 }

EastingInputs == { 500000, 100000000 }

NorthingInputs == { 5849659 }

HeightInputs == { 100 }

\* the history keeps the last MaxCalls finished calls
Record(c) ==
    IF Len(calls) < MaxCalls THEN Append(calls, c)
    ELSE Append(Tail(calls), c)

Geo2GridCall ==
    /\ \E lat \in LatInputs, long \in LongInputs :
          calls' = Record([ op |-> "geo2grid",
                            args |-> [lat |-> lat, long |-> long],
                            res |-> Geo2Grid(lat, long) ])
    /\ UNCHANGED <<proj, derived, xyz, io>>

Grid2GeoCall ==
    /\ \E zone \in ZoneInputs, easting \in EastingInputs,
          northing \in NorthingInputs :
          calls' = Record([ op |-> "grid2geo",
                            args |-> [ zone |-> zone, easting |-> easting,
                                       northing |-> northing ],
                            res |-> Grid2Geo(zone, easting, northing) ])
    /\ UNCHANGED <<proj, derived, xyz, io>>

Llh2XyzCall ==
    /\ \E lat \in LlhLatInputs, ellht \in HeightInputs :
          calls' = Record([ op |-> "llh2xyz",
                            args |-> [ lat |-> lat, long |-> 147 * Deg,
                                       ellht |-> ellht ],
                            res |-> Llh2Xyz(lat, 147 * Deg, ellht) ])
    /\ UNCHANGED <<proj, derived, xyz, io>>

---------------------------------------------------------------------------
(* conversions.dms2dd and conversions.dd2dms, and the csv fields *)

\* A csv field: num says whether float() accepts its text; v is the number
\* written, for an angle in units of 0.0001 (ddd.dddd or ddd.mmss)
Num(v) == [num |-> TRUE, v |-> v]

NotANumber == [num |-> FALSE, v |-> 0]

\* the angle a field stands for when its text is read as decimal degrees
DecimalDegrees(v) == v * 36

\* dms2dd: the packed form ddd.mmss taken apart into degrees, minutes and
\* seconds and put together as decimal degrees
Dms2dd(v) ==
    LET a == Abs(v)
        degrees == a \div 10000
        minutes == (a \div 100) % 100
        seconds == a % 100
        dd == degrees * Deg + minutes * (Deg \div 60) + seconds * (Deg \div 3600)
    IN  IF v >= 0 THEN dd ELSE -dd

\* dd2dms applied to a value of the inverse series
Dd2dms(dd) == [fn |-> "dd2dms", of |-> dd]

---------------------------------------------------------------------------
(* geo2gridio, lines 423-458, and grid2geoio, lines 382-420 *)

\* rows of Point ID, Latitude, Longitude
GeoRows ==
    { [id |-> "A", f |-> <<Num(-373900), Num(1433000)>>],
      [id |-> "B", f |-> <<Num(-370000), Num(1470000)>>],
      [id |-> "C", f |-> <<NotANumber, Num(1470000)>>] }

\* rows of Point ID, UTM Zone, Easting, Northing
GridRows ==
    { [id |-> "A", f |-> <<Num(55), Num(500000), Num(5849659)>>],
      [id |-> "B", f |-> <<Num(55), Num(100000000), Num(5849659)>>],
      [id |-> "C", f |-> <<Num(54), Num(512000), Num(5849659)>>] }

\* the files a driver may be given: up to MaxRows rows, no header
Files(rows) == UNION { [1..k -> rows] : k \in 0..MaxRows }

\* lines 435-446: the file name is read, both files are opened
Geo2GridIoOpen ==
    /\ io.pc = "idle"
    /\ \E rows \in Files(GeoRows) :
          io' = [ io EXCEPT !.pc = "loop", !.fn = "geo2gridio",
                            !.rows = rows, !.csvfile = "open",
                            !.outfile = "open" ]
    /\ UNCHANGED <<proj, derived, calls, xyz>>

\* lines 448-455: one row; an exception leaves the function at once
Geo2GridIoRow ==
    /\ io.pc = "loop" /\ io.fn = "geo2gridio"
    /\ io.idx <= Len(io.rows)
    /\ LET row == io.rows[io.idx]
           lat == Dms2dd(row.f[1].v)
           long == Dms2dd(row.f[2].v)
           output == Geo2Grid(lat, long)
       IN  io' = IF ~row.f[1].num \/ ~row.f[2].num
                 THEN [ io EXCEPT !.pc = "raised", !.raised = "ValueError" ]
                 ELSE [ io EXCEPT !.idx = @ + 1,
                                  !.args = Append(@, <<lat, long>>),
                                  !.out = Append(@, [ pt_num |-> row.id,
                                                      res |-> output ]) ]
    /\ UNCHANGED <<proj, derived, calls, xyz>>

\* lines 456-458: the rows are used up, both files are closed
Geo2GridIoClose ==
    /\ io.pc = "loop" /\ io.fn = "geo2gridio"
    /\ io.idx > Len(io.rows)
    /\ io' = [ io EXCEPT !.pc = "returned", !.csvfile = "closed",
                         !.outfile = "closed" ]
    /\ UNCHANGED <<proj, derived, calls, xyz>>

\* lines 394-405
Grid2GeoIoOpen ==
    /\ io.pc = "idle"
    /\ \E rows \in Files(GridRows) :
          io' = [ io EXCEPT !.pc = "loop", !.fn = "grid2geoio",
                            !.rows = rows, !.csvfile = "open",
                            !.outfile = "open" ]
    /\ UNCHANGED <<proj, derived, calls, xyz>>

\* lines 407-417
Grid2GeoIoRow ==
    /\ io.pc = "loop" /\ io.fn = "grid2geoio"
    /\ io.idx <= Len(io.rows)
    /\ LET row == io.rows[io.idx]
           zone == row.f[1].v
           east == row.f[2].v
           north == row.f[3].v
           r == Grid2Geo(zone, east, north)
       IN  io' = IF ~row.f[1].num \/ ~row.f[2].num \/ ~row.f[3].num
                 THEN [ io EXCEPT !.pc = "raised", !.raised = "ValueError" ]
                 ELSE IF r.raised # ""
                 THEN [ io EXCEPT !.pc = "raised", !.raised = r.raised,
                                  !.args = Append(@, <<zone, east, north>>) ]
                 ELSE [ io EXCEPT !.idx = @ + 1,
                                  !.args = Append(@, <<zone, east, north>>),
                                  !.out = Append(@,
                                      [ pt_num |-> row.id,
                                        res |-> [ lat |-> Dd2dms(r.lat),
                                                  long |-> Dd2dms(
                                                      [ cm |-> r.cm,
                                                        long_diff |-> r.long_diff ]) ] ]) ]
    /\ UNCHANGED <<proj, derived, calls, xyz>>

\* lines 418-420
Grid2GeoIoClose ==
    /\ io.pc = "loop" /\ io.fn = "grid2geoio"
    /\ io.idx > Len(io.rows)
    /\ io' = [ io EXCEPT !.pc = "returned", !.csvfile = "closed",
                         !.outfile = "closed" ]
    /\ UNCHANGED <<proj, derived, calls, xyz>>

---------------------------------------------------------------------------
(* The state after import, and the conversions in any order *)

IoIdle ==
    [ pc |-> "idle", fn |-> "", rows |-> <<>>, idx |-> 1, out |-> <<>>,
      args |-> <<>>, csvfile |-> "closed", outfile |-> "closed",
      raised |-> "" ]

Init ==
    /\ proj = grs80
    /\ derived = DerivedConstants(grs80)
    /\ calls = <<>>
    /\ xyz = [ pc |-> "idle", pt |-> <<0, 0, 0>>, itercheck |-> 0,
               iters |-> 0, raised |-> "" ]
    /\ io = IoIdle

Next ==
    \/ Geo2GridCall
    \/ Grid2GeoCall
    \/ Llh2XyzCall
    \/ Xyz2llhCall
    \/ Xyz2llhIterate
    \/ Xyz2llhReturn

Spec == Init /\ [][Next]_vars

\* one run of a csv driver
NextIO ==
    \/ Geo2GridIoOpen
    \/ Geo2GridIoRow
    \/ Geo2GridIoClose
    \/ Grid2GeoIoOpen
    \/ Grid2GeoIoRow
    \/ Grid2GeoIoClose

SpecIO == Init /\ [][NextIO]_vars

---------------------------------------------------------------------------
(* Properties *)

IsCall(i, op) == calls[i].op = op

ZoneWidth == proj[6] * Deg

\* origin - 1.5 * zoneWidth
ZoneBase == proj[7] * Deg - (3 * ZoneWidth) \div 2

\* C2: for every latitude and longitude L, the zone of geo2grid(lat, L +
\* zoneWidth) is the zone of geo2grid(lat, L) plus 1, also where the
\* quotient is negative.
ZoneShiftsByOne ==
    \A i, j \in DOMAIN calls :
        ( /\ IsCall(i, "geo2grid") /\ IsCall(j, "geo2grid")
          /\ calls[j].args.lat = calls[i].args.lat
          /\ calls[j].args.long = calls[i].args.long + ZoneWidth )
        => calls[j].res.zone = calls[i].res.zone + 1

\* C3: the zone geo2grid returns depends only on long (and the configured
\* zone width and origin): two calls with the same long and any two
\* latitudes return the same zone.
ZoneDependsOnlyOnLong ==
    \A i, j \in DOMAIN calls :
        ( /\ IsCall(i, "geo2grid") /\ IsCall(j, "geo2grid")
          /\ calls[j].args.long = calls[i].args.long )
        => calls[j].res.zone = calls[i].res.zone

\* two geo2grid calls on one longitude and two latitudes, one of them west
\* of the zone base
TwoLatitudesOneLongitude ==
    \E i, j \in DOMAIN calls :
        /\ IsCall(i, "geo2grid") /\ IsCall(j, "geo2grid")
        /\ calls[j].args.long = calls[i].args.long
        /\ calls[j].args.lat # calls[i].args.lat
        /\ calls[i].args.long < ZoneBase

\* C4: geo2grid and llh2xyz called with a latitude outside [-90, 90] fail
\* with InvalidLatitude and return no coordinate values.
InvalidLatitudeRejected ==
    \A i \in DOMAIN calls :
        ( /\ IsCall(i, "geo2grid") \/ IsCall(i, "llh2xyz")
          /\ Abs(calls[i].args.lat) > 90 * Deg )
        => calls[i].res.raised = "InvalidLatitude"

\* the number of passes the latitude loop of xyz2llh may make
IterationCap == 10

\* C5: the latitude loop of xyz2llh makes at most a fixed number of passes:
\* it ends by then, converged or signalling NonConvergence.
XyzIterationCapped ==
    /\ xyz.iters <= IterationCap
    /\ (xyz.pc = "loop" /\ xyz.iters = IterationCap /\ Abs(xyz.itercheck) > Tolerance)
          => xyz.raised = "NonConvergence"

\* C8: after any sequence or interleaving of conversion calls the derived
\* constants have the values they had after initialisation, and calls with
\* the same arguments have the same result.
ConstantsUnchanged ==
    /\ proj = grs80
    /\ derived = DerivedConstants(grs80)
    /\ \A i, j \in DOMAIN calls :
          (calls[i].op = calls[j].op /\ calls[i].args = calls[j].args)
          => calls[i].res = calls[j].res

\* a full history of closed-form calls while xyz2llh has made several passes
ConversionsInterleaved ==
    /\ Len(calls) >= 2
    /\ calls[1].op # calls[2].op
    /\ xyz.pc = "loop"
    /\ xyz.iters >= 2

\* C10: zone = floor((long - (origin - 1.5 zoneWidth)) / zoneWidth), cm =
\* zone zoneWidth + (origin - zoneWidth), long lies within half a zone width
\* of cm, and grid2geo derives the same cm from the zone.
ZoneIsFloorAndCentred ==
    \A i \in DOMAIN calls :
        IsCall(i, "geo2grid") =>
            LET long == calls[i].args.long
                zone == calls[i].res.zone
                cm == calls[i].res.centmeridian
            IN  /\ zone = FloorDiv(long - ZoneBase, ZoneWidth)
                /\ cm = zone * ZoneWidth + (proj[7] * Deg - ZoneWidth)
                /\ cm - ZoneWidth \div 2 <= long
                /\ long < cm + ZoneWidth \div 2
                /\ Grid2GeoCm(zone) = cm

IoEnded == io.pc \in {"returned", "raised"}

\* whether the conversion of a row succeeds
RowConverts(row) ==
    /\ \A k \in DOMAIN row.f : row.f[k].num
    /\ Len(row.f) = 3 => ~Grid2GeoRaises(row.f[2].v)

PointIds(rows) == [k \in DOMAIN rows |-> rows[k].id]

OutputIds == [k \in DOMAIN io.out |-> io.out[k].pt_num]

\* C6: when the conversion of one record fails, every other record of the
\* input is still converted and written; the batch is not aborted.
FailureIsPerRecord ==
    IoEnded => OutputIds = PointIds(SelectSeq(io.rows, RowConverts))

\* C7: for N records the driver calls the conversion once per record, writes
\* N records in input order, each starting with its point id, and both files
\* are closed when the driver is left.
EveryRecordWrittenInOrder ==
    IoEnded => /\ Len(io.args) = Len(io.rows)
               /\ OutputIds = PointIds(io.rows)
               /\ io.csvfile = "closed"
               /\ io.outfile = "closed"

\* C9: the latitude and longitude geo2gridio passes to geo2grid for a row
\* are the decimal-degree values written in that row.
RowsReadAsDecimalDegrees ==
    io.fn = "geo2gridio" =>
        \A k \in DOMAIN io.args :
            io.args[k] = << DecimalDegrees(io.rows[k].f[1].v),
                            DecimalDegrees(io.rows[k].f[2].v) >>

=============================================================================
